---- MODULE Spec2Model ----
(***************************************************************************)
(* Model of the College Scorecard loaders: load-ipeds.py (directory        *)
(* snapshot -> Institutions), load-scorecard.py and load-scorecard_copy.py *)
(* (metrics snapshot -> Students, Financials, Academics) running one after *)
(* another against one PostgreSQL store through psycopg connections that   *)
(* are not in autocommit mode.                                             *)
(***************************************************************************)
EXTENDS Integers, Sequences, FiniteSets, TLC

\* Longest CSV file, in data rows, that a run reads.
MaxRows == 2
\* Number of loader runs in one behaviour.
MaxRuns == 3
\* Longest str, in characters, that clean is called with on its own.
MaxChars == 3
\* Most '_'-separated parts of a file name that extract_year is called with.
MaxParts == 3

(***************************************************************************)
(* Python values.  Every value is a record of one shape so that values of  *)
(* different Python types can be compared: t is the type tag, s the        *)
(* characters of a str, n the number of an int/float.                      *)
(***************************************************************************)
None == [t |-> "None", s |-> <<>>, n |-> 0]
NaN == [t |-> "nan", s |-> <<>>, n |-> 0]
Str(chars) == [t |-> "str", s |-> chars, n |-> 0]
Num(k) == [t |-> "num", s |-> <<>>, n |-> k]

Digits == {"0", "1", "2", "3", "4", "5", "6", "7", "8", "9"}

DigitVal(c) ==
  CASE c = "0" -> 0 [] c = "1" -> 1 [] c = "2" -> 2 [] c = "3" -> 3
    [] c = "4" -> 4 [] c = "5" -> 5 [] c = "6" -> 6 [] c = "7" -> 7
    [] c = "8" -> 8 [] c = "9" -> 9

\* str.isdigit(): non-empty and every character a digit.
isdigit(chars) == chars # <<>> /\ \A i \in 1..Len(chars) : chars[i] \in Digits

RECURSIVE DecimalVal(_)
DecimalVal(chars) ==
  IF chars = <<>> THEN 0
  ELSE 10 * DecimalVal(SubSeq(chars, 1, Len(chars) - 1)) + DigitVal(chars[Len(chars)])

RECURSIVE lstrip(_)
lstrip(chars) ==
  IF chars # <<>> /\ Head(chars) = " " THEN lstrip(Tail(chars)) ELSE chars

RECURSIVE rstrip(_)
rstrip(chars) ==
  IF chars # <<>> /\ chars[Len(chars)] = " "
  THEN rstrip(SubSeq(chars, 1, Len(chars) - 1)) ELSE chars

\* str.strip()
strip(chars) == rstrip(lstrip(chars))

\* int(x) as to_row and the build_*_rows functions call it: the result, or
\* ok = FALSE where Python raises ValueError/TypeError.
int(value) ==
  IF value.t = "num" THEN [ok |-> TRUE, n |-> value.n]
  ELSE IF value.t = "str"
  THEN LET v == strip(value.s)
           neg == v # <<>> /\ Head(v) = "-"
           body == IF v # <<>> /\ Head(v) \in {"-", "+"} THEN Tail(v) ELSE v
       IN IF isdigit(body)
          THEN [ok |-> TRUE, n |-> IF neg THEN 0 - DecimalVal(body) ELSE DecimalVal(body)]
          ELSE [ok |-> FALSE, n |-> 0]
  ELSE [ok |-> FALSE, n |-> 0]

MissingTokens == {<<>>, <<"N", "A">>, <<"N", "/", "A">>, <<"N", "U", "L", "L">>}
NegativeCodes == {<<"-", "3">>, <<"-", "2">>, <<"-", "9", "9", "9">>}

\* Mutant: the check of the codes "-3", "-2", "-999" lost.
clean_ipeds_codes_kept(value) ==
  IF value.t = "None" THEN None
  ELSE IF value.t = "str"
  THEN LET v == strip(value.s)
       IN IF v \in MissingTokens THEN None ELSE Str(v)
  ELSE IF value.t = "num" /\ value.n < 0 THEN None
  ELSE value

\* load-ipeds.py clean
clean_ipeds(value) ==
  IF value.t = "None" THEN None
  ELSE IF value.t = "str"
  THEN LET v == strip(value.s)
       IN IF v \in MissingTokens THEN None
          ELSE IF v \in NegativeCodes THEN None
          ELSE Str(v)
  ELSE IF value.t = "num" /\ value.n < 0 THEN None
  ELSE value

\* load-scorecard.py and load-scorecard_copy.py clean
clean_scorecard(value) ==
  IF value.t = "None" \/ value.t = "nan" THEN None
  ELSE IF value.t = "str"
  THEN LET v == strip(value.s)
       IN IF v \in MissingTokens \cup {<<"n", "a", "n">>} THEN None
          ELSE IF v \in NegativeCodes THEN None
          ELSE Str(v)
  ELSE value

(***************************************************************************)
(* Sequence helpers.                                                       *)
(***************************************************************************)
Map(f(_), seq) == [i \in 1..Len(seq) |-> f(seq[i])]

RECURSIVE Filter(_, _)
Filter(keep(_), seq) ==
  IF seq = <<>> THEN <<>>
  ELSE IF keep(Head(seq)) THEN <<Head(seq)>> \o Filter(keep, Tail(seq))
  ELSE Filter(keep, Tail(seq))

\* Python's seq[i] for a 0-based index i that may be negative.
PyIndex(seq, i) == IF i < 0 THEN seq[Len(seq) + i + 1] ELSE seq[i + 1]

RECURSIVE SplitOn(_, _)
\* str.split(sep) for a one-character separator.
SplitOn(chars, sep) ==
  IF \A i \in 1..Len(chars) : chars[i] # sep THEN <<chars>>
  ELSE LET j == CHOOSE i \in 1..Len(chars) :
                  chars[i] = sep /\ \A k \in 1..(i - 1) : chars[k] # sep
       IN <<SubSeq(chars, 1, j - 1)>> \o SplitOn(SubSeq(chars, j + 1, Len(chars)), sep)

\* Mutant: the parts are searched first to last.
extract_year_first(path) ==
  LET base == SplitOn(path, "/")
      filename == SplitOn(base[Len(base)], ".")[1]
      parts == SplitOn(filename, "_")
      hits == {i \in 1..Len(parts) : isdigit(parts[i])}
  IN IF hits = {} THEN None
     ELSE Num(DecimalVal(parts[CHOOSE i \in hits : \A k \in hits : i <= k]))

\* extract_year: the last all-digit part of the file name, or None.
extract_year(path) ==
  LET base == SplitOn(path, "/")
      filename == SplitOn(base[Len(base)], ".")[1]
      parts == SplitOn(filename, "_")
      hits == {i \in 1..Len(parts) : isdigit(parts[i])}
  IN IF hits = {} THEN None
     ELSE Num(DecimalVal(parts[CHOOSE i \in hits : \A k \in hits : k <= i]))

(***************************************************************************)
(* The store.  A table is the set of its rows; the schema is the one the   *)
(* dashboard documents: Institutions has primary key institution_id, each  *)
(* fact table has primary key (institution_id, year).                      *)
(***************************************************************************)
EmptyStore == [Institutions |-> {}, Students |-> {}, Financials |-> {}, Academics |-> {}]

FactTables == {"Students", "Financials", "Academics"}

institution_ids(table) == {r.institution_id : r \in table}

\* INSERT INTO Institutions of one parameter tuple violates the primary key.
InstitutionsRejects(table, row) ==
  row[1] = None \/ row[1] \in institution_ids(table)

\* INSERT INTO a fact table of one parameter tuple violates its primary key
\* (institution_id, year).  The documented foreign key to Institutions is left
\* to the loaders: what keeps unknown ids out of the fact tables is then the
\* loaders' own filtering, which is what the referential claims are about.
FactRejects(table, institutions, row) ==
  \/ row[1] = None
  \/ row[2] = None
  \/ \E r \in table : r.institution_id = row[1] /\ r.year = row[2]

InstitutionsRow(row) == [institution_id |-> row[1], name |-> row[2], accredagency |-> row[3]]

FactRow(row) == [institution_id |-> row[1], year |-> row[2], metric |-> row[3]]

RECURSIVE rejected_at(_, _, _)
\* The 0-based position of the first tuple of a batch that a table rejects,
\* which is cursor.rowcount when executemany raises there ("index of failing
\* row"); Len(rows) when none is rejected.
rejected_at(res(_), rows, k) ==
  IF k >= Len(rows) \/ ~res(SubSeq(rows, 1, k + 1)).ok THEN k ELSE rejected_at(res, rows, k + 1)

RECURSIVE executemany_insert_institutions(_, _)
\* cursor.executemany(insert_sql, rows): the table after the rows that ran,
\* ok = FALSE when a row raised (the rows after it are not attempted).
executemany_insert_institutions(table, rows) ==
  IF rows = <<>> THEN [ok |-> TRUE, table |-> table]
  ELSE IF InstitutionsRejects(table, Head(rows)) THEN [ok |-> FALSE, table |-> table]
  ELSE executemany_insert_institutions(table \cup {InstitutionsRow(Head(rows))}, Tail(rows))

\* Mutant: the UPDATE sets name and leaves accredagency as it is.
update_institution_keep_accred(table, params) ==
  {IF r.institution_id = params[3] /\ params[3] # None
   THEN [r EXCEPT !.name = params[1]]
   ELSE r : r \in table}

\* Mutant: the table is left with the matched rows only.
update_institution_matched_only(table, params) ==
  {[r EXCEPT !.name = params[1], !.accredagency = params[2]] :
     r \in {x \in table : x.institution_id = params[3]}}

\* One UPDATE Institutions SET name, accredagency WHERE institution_id = key.
update_institution(table, params) ==
  {IF r.institution_id = params[3] /\ params[3] # None
   THEN [r EXCEPT !.name = params[1], !.accredagency = params[2]]
   ELSE r : r \in table}

RECURSIVE executemany_update_institutions(_, _)
\* cursor.executemany(update_sql, rows) of load-ipeds.py.
executemany_update_institutions(table, rows) ==
  IF rows = <<>> THEN table
  ELSE executemany_update_institutions(update_institution(table, Head(rows)), Tail(rows))

\* Mutant: an id the table does not hold gets a new row (an upsert).
update_accredagency_upsert(table, params) ==
  IF params[2] \in institution_ids(table) \/ params[2].t # "num"
  THEN {IF r.institution_id = params[2]
        THEN [r EXCEPT !.accredagency = params[1]]
        ELSE r : r \in table}
  ELSE table \cup {[institution_id |-> params[2], name |-> None, accredagency |-> params[1]]}

\* Mutant: the UPDATE sets name as well.
update_accredagency_and_name(table, params) ==
  {IF r.institution_id = params[2] /\ params[2] # None
   THEN [r EXCEPT !.accredagency = params[1], !.name = params[1]]
   ELSE r : r \in table}

\* One UPDATE Institutions SET accredagency WHERE institution_id = key.
update_accredagency(table, params) ==
  {IF r.institution_id = params[2] /\ params[2] # None
   THEN [r EXCEPT !.accredagency = params[1]]
   ELSE r : r \in table}

RECURSIVE executemany_update_accredagency(_, _)
\* cursor.executemany(accredagency_sql, accred_rows) of load-scorecard.py.
executemany_update_accredagency(table, rows) ==
  IF rows = <<>> THEN table
  ELSE executemany_update_accredagency(update_accredagency(table, Head(rows)), Tail(rows))

RECURSIVE executemany_upsert_facts(_, _, _)
\* Mutant: a row whose key the table holds replaces the row held
\* (INSERT ... ON CONFLICT DO UPDATE).
executemany_upsert_facts(table, institutions, rows) ==
  IF rows = <<>> THEN [ok |-> TRUE, table |-> table]
  ELSE IF Head(rows)[1] = None \/ Head(rows)[2] = None THEN [ok |-> FALSE, table |-> table]
  ELSE executemany_upsert_facts(
         {r \in table : ~(r.institution_id = Head(rows)[1] /\ r.year = Head(rows)[2])}
           \cup {FactRow(Head(rows))},
         institutions, Tail(rows))

RECURSIVE executemany_insert_facts(_, _, _)
\* cursor.executemany(students_sql | financials_sql | academics_sql, rows).
executemany_insert_facts(table, institutions, rows) ==
  IF rows = <<>> THEN [ok |-> TRUE, table |-> table]
  ELSE IF FactRejects(table, institutions, Head(rows)) THEN [ok |-> FALSE, table |-> table]
  ELSE executemany_insert_facts(table \cup {FactRow(Head(rows))}, institutions, Tail(rows))

\* cursor.rowcount after an UPDATE batch: the rows the statements matched.
update_rowcount(table, rows, keyAt) ==
  Cardinality({i \in 1..Len(rows) : rows[i][keyAt] \in institution_ids(table)})

(***************************************************************************)
(* Input files.                                                            *)
(***************************************************************************)
\* hd2022.csv read with dtype=str: every cell a str, an empty cell NaN.
DirectoryUNITID == {Str(<<"1">>), Str(<<"2">>), Str(<<"-", "1">>), NaN}
DirectoryINSTNM == {Str(<<"a">>), Str(<<"b">>)}
DirectoryRecords == [UNITID : DirectoryUNITID, INSTNM : DirectoryINSTNM]

\* scorecard_YYYY.csv read with inferred types: numbers, str, NaN.
MetricsUNITID == {Num(1), Num(2), NaN}
MetricsACCREDAGENCY == {Str(<<"A">>), NaN}
MetricsADM_RATE == {Num(1), Num(0 - 999)}
MetricsRecords ==
  [UNITID : MetricsUNITID, ACCREDAGENCY : MetricsACCREDAGENCY, ADM_RATE : MetricsADM_RATE,
   TUITFTE : {Num(1)}, STUFACR : {Num(1)}]
\* load-scorecard_copy.py never reads ACCREDAGENCY: one value stands for the column.
CopyRecords == {r \in MetricsRecords : r.ACCREDAGENCY = NaN}

Files(records) == UNION {[1..k -> records] : k \in 0..MaxRows}

\* scorecard_2022.csv as load_accred.py reads it, dtype=str: every cell a str,
\* an empty cell (and a cell pandas takes for missing, such as NA) NaN.
AccredUNITID == {Str(<<"1">>), Str(<<"x">>), NaN}
AccredACCREDAGENCY == {Str(<<"A">>), NaN}
AccredRecords == [UNITID : AccredUNITID, ACCREDAGENCY : AccredACCREDAGENCY]

DirectoryPaths == {<<"h", "d", "2", "0", "2", "2", ".", "c", "s", "v">>}
AccredPaths == {<<"s", "c", "_", "2", "0", "2", "2", ".", "c", "s", "v">>}
MetricsPaths ==
  {<<"d", "/", "s", "c", "_", "2", "0", "2", "1", ".", "c", "s", "v">>,
   <<"s", "n", "a", "p", "s", "h", "o", "t", ".", "c", "s", "v">>}

(***************************************************************************)
(* State.                                                                  *)
(***************************************************************************)
VARIABLES
  store,           \* the committed tables
  conn,            \* the tables as the open connection's transaction sees them
  error_log,       \* error_log.txt, one record per error_log() call
  pc,              \* position of the running loader; "idle" or "done" between runs
  script,          \* the loader that runs or ran last
  csv_path,        \* sys.argv[1]
  data,            \* the DataFrame's records
  year,            \* extract_year(csv_path)
  rows,            \* load-ipeds.py rows
  update_rows,
  insert_rows,
  accred_rows,
  students_rows,
  financials_rows,
  academics_rows,
  updated,
  inserted,
  exit_code,       \* the process's exit status once pc = "done"
  pre,             \* the committed tables and the log when the run started
  fault,           \* the store raised an error in this run that no key constraint explains
  runs,            \* loader runs started so far
  argv,            \* sys.argv[1:] of the running process
  arg,             \* the argument of a call of clean or extract_year on its own
  ret,             \* what that call returned
  key_queries      \* SELECTs on Institutions the run has executed to learn known ids

vars ==
  <<store, conn, error_log, pc, script, csv_path, data, year, rows, update_rows,
    insert_rows, accred_rows, students_rows, financials_rows, academics_rows,
    updated, inserted, exit_code, pre, fault, runs, argv, arg, ret, key_queries>>

NoneInserted == [Institutions |-> 0, Students |-> 0, Financials |-> 0, Academics |-> 0]

Init ==
  /\ store = EmptyStore
  /\ conn = EmptyStore
  /\ error_log = <<>>
  /\ pc = "idle"
  /\ script = "none"
  /\ csv_path = <<>>
  /\ data = <<>>
  /\ year = None
  /\ rows = <<>>
  /\ update_rows = <<>>
  /\ insert_rows = <<>>
  /\ accred_rows = <<>>
  /\ students_rows = <<>>
  /\ financials_rows = <<>>
  /\ academics_rows = <<>>
  /\ updated = 0
  /\ inserted = NoneInserted
  /\ exit_code = 0
  /\ pre = [store |-> EmptyStore, error_log |-> <<>>]
  /\ fault = FALSE
  /\ runs = 0
  /\ argv = <<>>
  /\ arg = None
  /\ ret = None
  /\ key_queries = 0

\* A new process of one loader.
StartRun(name, path, file) ==
  /\ pc = "idle"
  /\ runs < MaxRuns
  /\ runs' = runs + 1
  /\ script' = name
  /\ argv' = <<path>>
  /\ csv_path' = path
  /\ data' = file
  /\ pre' = [store |-> store, error_log |-> error_log]
  /\ conn' = store
  /\ fault' = FALSE
  /\ updated' = 0
  /\ inserted' = NoneInserted
  /\ UNCHANGED <<store, error_log, arg, ret>>

\* The str load-scorecard.py passes as the row number of a failed accredagency batch.
accredagency_batch ==
  Str(<<"a", "c", "c", "r", "e", "d", "a", "g", "e", "n", "c", "y", "_", "b", "a", "t", "c", "h">>)

\* error_log(e, i, row, csv_path): one record appended to error_log.txt.  Of the
\* record's lines the model keeps "When running <script>, Row <i> failed in
\* <csv_path>"; the timestamp, the exception text and the row data are not kept.
error_log_append(name, i, row, path) ==
  Append(error_log, [script |-> name, i |-> i, csv_path |-> path])

(***************************************************************************)
(* load-ipeds.py                                                           *)
(***************************************************************************)
to_row(rec) ==
  <<clean_ipeds(Num(int(rec.UNITID).n)), clean_ipeds(rec.INSTNM), None>>

\* Mutant: the row is passed to the UPDATE as it is, key first.
update_tuple_key_first(row) == row

\* The UPDATE parameter tuple: all values except inst_id, then inst_id at the end.
update_tuple(row) == Tail(row) \o <<row[1]>>

partition_update(mapped, existing_ids) ==
  Map(update_tuple, Filter(LAMBDA row : row[1] \in existing_ids, mapped))

\* Mutant: the rows to insert are reshaped like the rows to update.
partition_insert_reshaped(mapped, existing_ids) ==
  Map(update_tuple, Filter(LAMBDA row : row[1] \notin existing_ids, mapped))

\* Mutant: the known ids grow while the loop runs, so that a second row with
\* the id of an earlier row is not appended to insert_rows.
partition_insert_first_sighting(mapped, existing_ids) ==
  LET first == {i \in 1..Len(mapped) :
                  /\ mapped[i][1] \notin existing_ids
                  /\ \A k \in 1..(i - 1) : mapped[k][1] # mapped[i][1]}
  IN Map(LAMBDA i : mapped[i],
         Filter(LAMBDA i : i \in first, [i \in 1..Len(mapped) |-> i]))

\* Mutant: the else of the partition loop lost, every row is appended to insert_rows.
partition_insert_all(mapped, existing_ids) == mapped

partition_insert(mapped, existing_ids) ==
  Filter(LAMBDA row : row[1] \notin existing_ids, mapped)

\* The 1-based position in rows of the first row with the failing row's id.
original_index(mapped, inst_id, rowcount) ==
  IF \E i \in 1..Len(mapped) : mapped[i][1] = inst_id
  THEN CHOOSE i \in 1..Len(mapped) :
         mapped[i][1] = inst_id /\ \A k \in 1..(i - 1) : mapped[k][1] # inst_id
  ELSE rowcount

IpedsStart ==
  \E path \in DirectoryPaths, file \in Files(DirectoryRecords) :
    /\ StartRun("load-ipeds", path, file)
    /\ year' = None
    /\ accred_rows' = <<>>
    /\ students_rows' = <<>>
    /\ financials_rows' = <<>>
    /\ academics_rows' = <<>>
    /\ IF \E i \in 1..Len(file) : ~int(file[i].UNITID).ok
       THEN \* int() raises in to_row: the traceback ends the process
            /\ rows' = <<>>
            /\ update_rows' = <<>>
            /\ insert_rows' = <<>>
            /\ exit_code' = 1
            /\ pc' = "done"
            /\ key_queries' = 0
       ELSE LET mapped == Map(to_row, file)
                existing_ids == institution_ids(store.Institutions)
            IN /\ rows' = mapped
               /\ update_rows' = partition_update(mapped, existing_ids)
               /\ insert_rows' = partition_insert(mapped, existing_ids)
               /\ exit_code' = 0
               /\ pc' = "ipeds_update"
               /\ key_queries' = 1

IpedsFrame ==
  UNCHANGED <<script, csv_path, data, year, rows, update_rows, insert_rows, accred_rows,
              students_rows, financials_rows, academics_rows, pre, runs, argv, arg, ret,
              key_queries>>

\* Mutant: the except block commits what the transaction holds instead of
\* rolling it back.
IpedsFail_commit(batch, keyAt, rowcounts) ==
  \E rowcount \in rowcounts :
    LET bad_row == PyIndex(batch, rowcount)
        failed_index == original_index(rows, bad_row[keyAt], rowcount)
    IN /\ conn' = conn
       /\ store' = conn
       /\ error_log' = error_log_append("load-ipeds", Num(failed_index), bad_row, csv_path)
       /\ exit_code' = 1
       /\ pc' = "done"
       /\ UNCHANGED <<updated, inserted>>

\* except Exception of a bulk write: rollback, error_log, sys.exit(1).
IpedsFail(batch, keyAt, rowcounts) ==
  \E rowcount \in rowcounts :
    LET bad_row == PyIndex(batch, rowcount)
        failed_index == original_index(rows, bad_row[keyAt], rowcount)
    IN /\ conn' = store
       /\ error_log' = error_log_append("load-ipeds", Num(failed_index), bad_row, csv_path)
       /\ exit_code' = 1
       /\ pc' = "done"
       /\ UNCHANGED <<store, updated, inserted>>

\* Mutant: conn.commit() after the update batch.
IpedsUpdate_commit ==
  /\ pc = "ipeds_update"
  /\ IpedsFrame
  /\ IF update_rows = <<>>
     THEN /\ pc' = "ipeds_insert"
          /\ UNCHANGED <<store, conn, error_log, updated, inserted, exit_code, fault>>
     ELSE /\ conn' = [conn EXCEPT !.Institutions =
                        executemany_update_institutions(@, update_rows)]
          /\ store' = conn'
          /\ updated' = update_rowcount(conn.Institutions, update_rows, 3)
          /\ pc' = "ipeds_insert"
          /\ UNCHANGED <<error_log, inserted, exit_code, fault>>

IpedsUpdate ==
  /\ pc = "ipeds_update"
  /\ IpedsFrame
  /\ IF update_rows = <<>>
     THEN /\ pc' = "ipeds_insert"
          /\ UNCHANGED <<store, conn, error_log, updated, inserted, exit_code, fault>>
     ELSE \/ /\ conn' = [conn EXCEPT !.Institutions =
                           executemany_update_institutions(@, update_rows)]
             /\ updated' = update_rowcount(conn.Institutions, update_rows, 3)
             /\ pc' = "ipeds_insert"
             /\ UNCHANGED <<store, error_log, inserted, exit_code, fault>>
          \/ /\ fault' = TRUE
             /\ IpedsFail(update_rows, 3, 0..(Len(update_rows) - 1))

\* Mutant: conn.commit() lost after the insert block.
IpedsInsert_no_commit ==
  /\ pc = "ipeds_insert"
  /\ IpedsFrame
  /\ LET res == executemany_insert_institutions(conn.Institutions, insert_rows)
     IN \/ /\ res.ok
           /\ conn' = store
           /\ inserted' = [inserted EXCEPT !.Institutions = Len(insert_rows)]
           /\ pc' = "done"
           /\ UNCHANGED <<store, error_log, updated, exit_code, fault>>
        \/ /\ ~res.ok
           /\ UNCHANGED fault
           /\ IpedsFail(insert_rows, 1,
                        {rejected_at(LAMBDA b : executemany_insert_institutions(conn.Institutions, b),
                                     insert_rows, 0)})

\* The insert block and, when nothing raised, conn.commit() and a normal exit.
IpedsInsert ==
  /\ pc = "ipeds_insert"
  /\ IpedsFrame
  /\ LET res == executemany_insert_institutions(conn.Institutions, insert_rows)
     IN \/ /\ res.ok
           /\ conn' = [conn EXCEPT !.Institutions = res.table]
           /\ store' = conn'
           /\ inserted' = [inserted EXCEPT !.Institutions = Len(insert_rows)]
           /\ pc' = "done"
           /\ UNCHANGED <<error_log, updated, exit_code, fault>>
        \/ /\ ~res.ok
           /\ UNCHANGED fault
           /\ IpedsFail(insert_rows, 1,
                        {rejected_at(LAMBDA b : executemany_insert_institutions(conn.Institutions, b),
                                     insert_rows, 0)})
        \/ /\ res.ok
           /\ insert_rows # <<>>
           /\ fault' = TRUE
           /\ IpedsFail(insert_rows, 1, 0..(Len(insert_rows) - 1))

(***************************************************************************)
(* load-scorecard.py                                                       *)
(***************************************************************************)
\* The accredagency parameter tuples: the raw UNITID, the cleaned agency.
build_accred_rows(file) ==
  Map(LAMBDA r : <<clean_scorecard(r.ACCREDAGENCY), r.UNITID>>,
      Filter(LAMBDA r : ~(r.UNITID = None \/ (r.UNITID.t = "str" /\ strip(r.UNITID.s) = <<>>)),
             file))

build_students_rows(file, yr) ==
  Map(LAMBDA rec : <<clean_scorecard(Num(int(rec.UNITID).n)), yr, clean_scorecard(rec.ADM_RATE)>>,
      file)

build_financials_rows(file, yr) ==
  Map(LAMBDA rec : <<clean_scorecard(Num(int(rec.UNITID).n)), yr, clean_scorecard(rec.TUITFTE)>>,
      file)

build_academics_rows(file, yr) ==
  Map(LAMBDA rec : <<clean_scorecard(Num(int(rec.UNITID).n)), yr, clean_scorecard(rec.STUFACR)>>,
      file)

\* Mutant: the valid_ids filter lost, every fact row is kept.
filter_none(fact_rows, valid_ids) == fact_rows

\* [row for row in fact_rows if row[0] in valid_ids]
filter_valid(fact_rows, valid_ids) == Filter(LAMBDA row : row[1] \in valid_ids, fact_rows)

\* Loading the file and building every batch, up to psycopg.connect.
MetricsStart(name, records, first) ==
  \E path \in MetricsPaths, file \in Files(records) :
    /\ StartRun(name, path, file)
    /\ year' = extract_year(path)
    /\ key_queries' = 0
    /\ rows' = <<>>
    /\ update_rows' = <<>>
    /\ insert_rows' = <<>>
    /\ IF \E i \in 1..Len(file) : ~int(file[i].UNITID).ok
       THEN \* int() raises in build_students_rows: the traceback ends the process
            /\ accred_rows' = <<>>
            /\ students_rows' = <<>>
            /\ financials_rows' = <<>>
            /\ academics_rows' = <<>>
            /\ exit_code' = 1
            /\ pc' = "done"
       ELSE /\ accred_rows' = IF name = "load-scorecard" THEN build_accred_rows(file) ELSE <<>>
            /\ students_rows' = build_students_rows(file, year')
            /\ financials_rows' = build_financials_rows(file, year')
            /\ academics_rows' = build_academics_rows(file, year')
            /\ exit_code' = 0
            /\ pc' = first

ScorecardStart == MetricsStart("load-scorecard", MetricsRecords, "sc_accred")

\* Mutant: conn.commit() lost after the accredagency batch.
ScorecardAccred_no_commit ==
  /\ pc = "sc_accred"
  /\ UNCHANGED <<script, csv_path, data, year, rows, update_rows, insert_rows, accred_rows,
                 updated, inserted, pre, runs, argv, arg, ret>>
  /\ LET table == executemany_update_accredagency(conn.Institutions, accred_rows)
         valid_ids == institution_ids(table)
     IN /\ conn' = [conn EXCEPT !.Institutions = table]
        /\ students_rows' = filter_valid(students_rows, valid_ids)
        /\ financials_rows' = filter_valid(financials_rows, valid_ids)
        /\ academics_rows' = filter_valid(academics_rows, valid_ids)
        /\ key_queries' = 1
        /\ pc' = "sc_students"
        /\ UNCHANGED <<store, error_log, exit_code, fault>>

\* The accredagency batch with its own commit, then the valid_ids query and
\* the three filters.
ScorecardAccred ==
  /\ pc = "sc_accred"
  /\ UNCHANGED <<script, csv_path, data, year, rows, update_rows, insert_rows, accred_rows,
                 updated, inserted, pre, runs, argv, arg, ret>>
  /\ \/ LET table == executemany_update_accredagency(conn.Institutions, accred_rows)
            valid_ids == institution_ids(table)
        IN /\ conn' = [conn EXCEPT !.Institutions = table]
           /\ store' = conn'
           /\ students_rows' = filter_valid(students_rows, valid_ids)
           /\ financials_rows' = filter_valid(financials_rows, valid_ids)
           /\ academics_rows' = filter_valid(academics_rows, valid_ids)
           /\ key_queries' = 1
           /\ pc' = "sc_students"
           /\ UNCHANGED <<error_log, exit_code, fault>>
     \/ /\ accred_rows # <<>>
        /\ fault' = TRUE
        /\ conn' = store
        /\ error_log' = error_log_append("load-scorecard", accredagency_batch, Str(<<"N", "/", "A">>), csv_path)
        /\ exit_code' = 1
        /\ pc' = "done"
        /\ UNCHANGED <<store, students_rows, financials_rows, academics_rows, key_queries>>

ScorecardFrame ==
  UNCHANGED <<script, csv_path, data, year, rows, update_rows, insert_rows, accred_rows,
              students_rows, financials_rows, academics_rows, updated, pre, runs, argv,
              arg, ret>>

\* Mutant: the rows before the failing one are committed, as a row-by-row
\* writer would leave them.
ScorecardFail_rows_before(batch, rowcounts) ==
  \E rowcount \in rowcounts :
    LET table == CASE pc = "sc_students" -> "Students"
                   [] pc = "sc_financials" -> "Financials"
                   [] OTHER -> "Academics"
    IN /\ conn' = [store EXCEPT ![table] = @ \cup {FactRow(batch[i]) : i \in 1..rowcount}]
       /\ store' = conn'
       /\ error_log' = error_log_append("load-scorecard", Num(rowcount), PyIndex(batch, rowcount), csv_path)
       /\ exit_code' = 1
       /\ pc' = "done"
       /\ UNCHANGED inserted

\* except Exception of a fact batch: rollback, error_log, sys.exit(1).
ScorecardFail(batch, rowcounts) ==
  \E rowcount \in rowcounts :
    /\ conn' = store
    /\ error_log' = error_log_append("load-scorecard", Num(rowcount), PyIndex(batch, rowcount), csv_path)
    /\ exit_code' = 1
    /\ pc' = "done"
    /\ UNCHANGED <<store, inserted>>

\* Mutant: conn.commit() after every fact table's batch.
ScorecardInsert_commit_each(at, table, batch, next) ==
  /\ pc = at
  /\ ScorecardFrame
  /\ UNCHANGED key_queries
  /\ LET res == executemany_insert_facts(conn[table], conn.Institutions, batch)
     IN \/ /\ res.ok
           /\ conn' = [conn EXCEPT ![table] = res.table]
           /\ inserted' = [inserted EXCEPT ![table] = Len(batch)]
           /\ store' = conn'
           /\ pc' = next
           /\ UNCHANGED <<error_log, exit_code, fault>>
        \/ /\ batch # <<>>
           /\ fault' = TRUE
           /\ ScorecardFail(batch, 0..(Len(batch) - 1))

\* One try/except block of a fact table; commits when it is the last one.
ScorecardInsert(at, table, batch, next) ==
  /\ pc = at
  /\ ScorecardFrame
  /\ UNCHANGED key_queries
  /\ LET res == executemany_insert_facts(conn[table], conn.Institutions, batch)
     IN \/ /\ res.ok
           /\ conn' = [conn EXCEPT ![table] = res.table]
           /\ inserted' = [inserted EXCEPT ![table] = Len(batch)]
           /\ store' = IF next = "done" THEN conn' ELSE store
           /\ pc' = next
           /\ UNCHANGED <<error_log, exit_code, fault>>
        \/ /\ ~res.ok
           /\ UNCHANGED fault
           /\ ScorecardFail(batch,
                            {rejected_at(LAMBDA b : executemany_insert_facts(conn[table],
                                                                             conn.Institutions, b),
                                         batch, 0)})
        \/ /\ res.ok
           /\ batch # <<>>
           /\ fault' = TRUE
           /\ ScorecardFail(batch, 0..(Len(batch) - 1))

ScorecardStudents == ScorecardInsert("sc_students", "Students", students_rows, "sc_financials")

ScorecardFinancials ==
  ScorecardInsert("sc_financials", "Financials", financials_rows, "sc_academics")

ScorecardAcademics == ScorecardInsert("sc_academics", "Academics", academics_rows, "done")

(***************************************************************************)
(* load-scorecard_copy.py                                                  *)
(***************************************************************************)
CopyStart == MetricsStart("load-scorecard_copy", CopyRecords, "copy_students")

RECURSIVE copy_loop(_, _, _)
\* for row in fact_rows: check_sql, skip the row when the id is unknown,
\* else execute the INSERT; ok = FALSE when an INSERT raised.  checks counts
\* the executions of check_sql.
copy_loop(table, institutions, fact_rows) ==
  IF fact_rows = <<>> THEN [ok |-> TRUE, table |-> table, count |-> 0, checks |-> 0]
  ELSE IF Head(fact_rows)[1] \notin institution_ids(institutions)
  THEN LET rest == copy_loop(table, institutions, Tail(fact_rows))
       IN [rest EXCEPT !.checks = @ + 1]
  ELSE IF FactRejects(table, institutions, Head(fact_rows))
  THEN [ok |-> FALSE, table |-> table, count |-> 0, checks |-> 1]
  ELSE LET rest == copy_loop(table \cup {FactRow(Head(fact_rows))}, institutions, Tail(fact_rows))
       IN [rest EXCEPT !.count = @ + 1, !.checks = @ + 1]

\* The rows of a batch whose id check_sql finds.
copy_checked(institutions, fact_rows) ==
  Filter(LAMBDA row : row[1] \in institution_ids(institutions), fact_rows)

\* except Exception in a loop: rollback and sys.exit(1), nothing logged.
CopyFail ==
  /\ conn' = store
  /\ exit_code' = 1
  /\ pc' = "done"
  /\ UNCHANGED <<store, inserted, error_log>>

\* One loop over a fact batch; commits when it is the last one.
CopyInsert(at, table, batch, next) ==
  /\ pc = at
  /\ ScorecardFrame
  /\ LET res == copy_loop(conn[table], conn.Institutions, batch)
     IN \/ /\ res.ok
           /\ conn' = [conn EXCEPT ![table] = res.table]
           /\ inserted' = [inserted EXCEPT ![table] = res.count]
           /\ store' = IF next = "done" THEN conn' ELSE store
           /\ key_queries' = key_queries + res.checks
           /\ pc' = next
           /\ UNCHANGED <<error_log, exit_code, fault>>
        \/ /\ ~res.ok
           /\ key_queries' = key_queries + res.checks
           /\ UNCHANGED fault
           /\ CopyFail
        \/ /\ res.ok
           /\ \E i \in 1..Len(batch) :
                /\ batch[i][1] \in institution_ids(conn.Institutions)
                /\ key_queries' = key_queries + i
           /\ fault' = TRUE
           /\ CopyFail

CopyStudents == CopyInsert("copy_students", "Students", students_rows, "copy_financials")

CopyFinancials == CopyInsert("copy_financials", "Financials", financials_rows, "copy_academics")

CopyAcademics == CopyInsert("copy_academics", "Academics", academics_rows, "done")

(***************************************************************************)
(* load_accred.py                                                          *)
(***************************************************************************)
\* "Skip blanks": the rows whose UNITID is a str that is not blank.
accred_not_skipped(file) ==
  Filter(LAMBDA r : r.UNITID.t = "str" /\ strip(r.UNITID.s) # <<>>, file)

RECURSIVE accred_loop(_, _)
\* for i, row in data.iterrows(): cursor.execute(update_sql, (accredagency,
\* unitid)) with the values as read.  ok = FALSE when an execute raised: the
\* store cannot compare institution_id with a text that is not an integer.
accred_loop(table, file) ==
  IF file = <<>> THEN [ok |-> TRUE, table |-> table, updated |-> 0]
  ELSE LET r == Head(file)
           unitid == int(r.UNITID)
       IN IF ~(r.UNITID.t = "str" /\ strip(r.UNITID.s) # <<>>)
          THEN accred_loop(table, Tail(file))
          ELSE IF ~unitid.ok THEN [ok |-> FALSE, table |-> table, updated |-> 0]
          ELSE LET params == <<r.ACCREDAGENCY, Num(unitid.n)>>
                   rest == accred_loop(update_accredagency(table, params), Tail(file))
               IN [rest EXCEPT !.updated = @ + update_rowcount(table, <<params>>, 2)]

AccredStart ==
  \E path \in AccredPaths, file \in Files(AccredRecords) :
    /\ StartRun("load_accred", path, file)
    /\ key_queries' = 0
    /\ year' = None
    /\ rows' = <<>>
    /\ update_rows' = <<>>
    /\ insert_rows' = <<>>
    /\ accred_rows' = <<>>
    /\ students_rows' = <<>>
    /\ financials_rows' = <<>>
    /\ academics_rows' = <<>>
    /\ exit_code' = 0
    /\ pc' = "accred_update"

\* except Exception of the transaction: rollback and a printed message; main
\* returns and the process ends with exit code 0.
AccredFail ==
  /\ conn' = store
  /\ pc' = "done"
  /\ UNCHANGED <<store, updated, exit_code>>

\* The try block: the loop over the rows, then conn.commit().
AccredUpdate ==
  /\ pc = "accred_update"
  /\ UNCHANGED <<script, csv_path, data, year, rows, update_rows, insert_rows, accred_rows,
                 students_rows, financials_rows, academics_rows, inserted, error_log, pre,
                 runs, argv, arg, ret, key_queries>>
  /\ LET res == accred_loop(conn.Institutions, data)
     IN \/ /\ res.ok
           /\ conn' = [conn EXCEPT !.Institutions = res.table]
           /\ store' = conn'
           /\ updated' = res.updated
           /\ pc' = "done"
           /\ UNCHANGED <<exit_code, fault>>
        \/ /\ ~res.ok
           /\ UNCHANGED fault
           /\ AccredFail
        \/ /\ res.ok
           /\ accred_not_skipped(data) # <<>>
           /\ fault' = TRUE
           /\ AccredFail

(***************************************************************************)
(* A loader started without the path argument.                             *)
(***************************************************************************)
NoArgument(name, code) ==
  /\ pc = "idle"
  /\ runs < MaxRuns
  /\ runs' = runs + 1
  /\ script' = name
  /\ argv' = <<>>
  /\ pre' = [store |-> store, error_log |-> error_log]
  /\ exit_code' = code
  /\ pc' = "done"
  /\ UNCHANGED <<store, conn, error_log, csv_path, data, year, rows, update_rows, insert_rows,
                 accred_rows, students_rows, financials_rows, academics_rows, updated,
                 inserted, fault, arg, ret, key_queries>>

\* csv_path = sys.argv[1] raises IndexError: a traceback and exit code 1.
IpedsNoArgument == NoArgument("load-ipeds", 1)

ScorecardNoArgument == NoArgument("load-scorecard", 1)

AccredNoArgument == NoArgument("load_accred", 1)

\* len(sys.argv) != 2: the usage line is printed, then sys.exit(2).
CopyNoArgument == NoArgument("load-scorecard_copy", 2)

\* The process is gone, and its variables with it; the store and the log stay.
ProcessExit ==
  /\ pc = "done"
  /\ pc' = "idle"
  /\ conn' = store
  /\ csv_path' = <<>>
  /\ data' = <<>>
  /\ year' = None
  /\ rows' = <<>>
  /\ update_rows' = <<>>
  /\ insert_rows' = <<>>
  /\ accred_rows' = <<>>
  /\ students_rows' = <<>>
  /\ financials_rows' = <<>>
  /\ academics_rows' = <<>>
  /\ updated' = 0
  /\ inserted' = NoneInserted
  /\ exit_code' = 0
  /\ pre' = [store |-> store, error_log |-> error_log]
  /\ fault' = FALSE
  /\ script' = "none"
  /\ argv' = <<>>
  /\ key_queries' = 0
  /\ UNCHANGED <<store, error_log, runs, arg, ret>>

Next ==
  \/ ProcessExit
  \/ IpedsStart
  \/ IpedsUpdate
  \/ IpedsInsert
  \/ ScorecardStart
  \/ ScorecardAccred
  \/ ScorecardStudents
  \/ ScorecardFinancials
  \/ ScorecardAcademics
  \/ CopyStart
  \/ CopyStudents
  \/ CopyFinancials
  \/ CopyAcademics
  \/ AccredStart
  \/ AccredUpdate
  \/ IpedsNoArgument
  \/ ScorecardNoArgument
  \/ CopyNoArgument
  \/ AccredNoArgument

Spec == Init /\ [][Next]_vars

(***************************************************************************)
(* clean and extract_year called on their own, as main calls them on a     *)
(* cell of the file and on sys.argv[1].                                    *)
(***************************************************************************)
Loaders == {"load-ipeds", "load-scorecard", "load-scorecard_copy"}

CellChars == {" ", "N", "A", "/", "-", "2", "a"}

\* What a cell holds: None (rec.get of a missing column), NaN, a number, a str.
CleanArgs ==
  {None, NaN}
    \cup {Num(k) : k \in {0 - 999, 0 - 3, 0 - 1, 0, 1}}
    \cup {Str(chars) : chars \in UNION {[1..k -> CellChars] : k \in 0..MaxChars}}
    \cup {Str(<<"N", "U", "L", "L">>), Str(<<"n", "a", "n">>), Str(<<"-", "9", "9", "9">>),
          Str(<<"-", "3">>), Str(<<" ", "N", "U", "L", "L", " ">>)}

NameParts == {<<"s">>, <<"P", "2">>, <<"2", "0", "2", "1">>, <<"0", "0", "2", "2">>}
NameDirs == {<<>>, <<"d", "/">>, <<"1", "_", "2", ".", "x", "/">>}
NameSuffixes == {<<".", "c", "s", "v">>, <<".", "v", "_", "3", ".", "c", "s", "v">>}

\* A path by its pieces: the directory, the parts of the name that '_'
\* separates, and what follows the first '.'.
YearArgs ==
  [dir : NameDirs, parts : UNION {[1..k -> NameParts] : k \in 1..MaxParts},
   suffix : NameSuffixes]

RECURSIVE JoinParts(_)
JoinParts(parts) ==
  IF Len(parts) = 1 THEN parts[1] ELSE parts[1] \o <<"_">> \o JoinParts(Tail(parts))

PathOf(a) == a.dir \o JoinParts(a.parts) \o a.suffix

CallInit ==
  /\ store = EmptyStore
  /\ conn = EmptyStore
  /\ error_log = <<>>
  /\ csv_path = <<>>
  /\ data = <<>>
  /\ year = None
  /\ rows = <<>>
  /\ update_rows = <<>>
  /\ insert_rows = <<>>
  /\ accred_rows = <<>>
  /\ students_rows = <<>>
  /\ financials_rows = <<>>
  /\ academics_rows = <<>>
  /\ updated = 0
  /\ inserted = NoneInserted
  /\ exit_code = 0
  /\ pre = [store |-> EmptyStore, error_log |-> <<>>]
  /\ fault = FALSE
  /\ runs = 0
  /\ argv = <<>>
  /\ ret = None
  /\ key_queries = 0
  /\ \/ pc = "call_clean" /\ script \in Loaders /\ arg \in CleanArgs
     \/ /\ pc = "call_extract_year"
        /\ script \in {"load-scorecard", "load-scorecard_copy"}
        /\ arg \in YearArgs

CallFrame ==
  UNCHANGED <<store, conn, error_log, script, csv_path, data, year, rows, update_rows,
              insert_rows, accred_rows, students_rows, financials_rows, academics_rows,
              updated, inserted, exit_code, pre, fault, runs, argv, arg, key_queries>>

\* clean(value) of the loader's module.
CallClean ==
  /\ pc = "call_clean"
  /\ ret' = IF script = "load-ipeds" THEN clean_ipeds(arg) ELSE clean_scorecard(arg)
  /\ pc' = "returned_clean"
  /\ CallFrame

\* extract_year(path); load-scorecard.py and load-scorecard_copy.py define it alike.
CallExtractYear ==
  /\ pc = "call_extract_year"
  /\ ret' = extract_year(PathOf(arg))
  /\ pc' = "returned_extract_year"
  /\ CallFrame

CallNext == CallClean \/ CallExtractYear

CallSpec == CallInit /\ [][CallNext]_vars

(***************************************************************************)
(* Properties.                                                             *)
(***************************************************************************)
\* The ids Institutions held when the run started.
KnownBefore == institution_ids(pre.store.Institutions)

InSeq(x, seq) == \E j \in 1..Len(seq) : seq[j] = x

\* The run got past loading: no int() raised while the rows were built.
Loaded == argv # <<>> /\ \A i \in 1..Len(data) : int(data[i].UNITID).ok

\* C1: in load-ipeds every mapped row is in exactly one of insert_rows and
\* update_rows, in update_rows (key moved to the end) iff its key was in
\* Institutions when the run read the known keys; the two counts add up to the
\* number of mapped rows.
C1_PartitionExhaustiveDisjoint ==
  script = "load-ipeds" =>
    /\ Len(insert_rows) + Len(update_rows) = Len(rows)
    /\ \A i \in 1..Len(rows) :
         LET row == rows[i]
             asInsert == InSeq(row, insert_rows)
             asUpdate == InSeq(Tail(row) \o <<row[1]>>, update_rows)
         IN /\ row[1] \in KnownBefore => asUpdate /\ ~asInsert
            /\ row[1] \notin KnownBefore => asInsert /\ ~asUpdate

C1_Witness ==
  /\ script = "load-ipeds"
  /\ pc = "ipeds_update"
  /\ Len(insert_rows) = 1
  /\ Len(update_rows) = 1

\* C2: every row of the three fact batches that load-scorecard passes to a
\* fact write has an id that is in Institutions, and every fact row a metrics
\* run has written so far has an id that is in Institutions.
C2_FactRowsHaveKnownKeys ==
  /\ pc \in {"sc_students", "sc_financials", "sc_academics"} =>
       \A batch \in {students_rows, financials_rows, academics_rows} :
         \A i \in 1..Len(batch) : batch[i][1] \in institution_ids(conn.Institutions)
  /\ script \in {"load-scorecard", "load-scorecard_copy"} =>
       \A t \in FactTables :
         \A r \in conn[t] \ pre.store[t] :
           r.institution_id \in institution_ids(conn.Institutions)

C2_Witness ==
  /\ pc = "sc_students"
  /\ students_rows # <<>>
  /\ Len(students_rows) < Len(data)

\* C3: in every state, every committed row of Students, Financials and
\* Academics has an institution_id that a committed Institutions row has.
C3_FactsReferenceInstitutions ==
  \A t \in FactTables :
    \A r \in store[t] : r.institution_id \in institution_ids(store.Institutions)

C3_Witness ==
  /\ pc = "done"
  /\ exit_code = 1
  /\ error_log # pre.error_log
  /\ \A t \in FactTables : store[t] # {}

Last(seq) == seq[Len(seq)]

MetricsScripts == {"load-scorecard", "load-scorecard_copy"}

\* An executemany of load-ipeds.py or load-scorecard.py raised in the run that
\* just ended: the run got past loading and exited with code 1.
BulkWriteFailed ==
  /\ pc = "done"
  /\ script \in {"load-ipeds", "load-scorecard"}
  /\ Loaded
  /\ exit_code = 1

\* The rows of an Institutions insert batch that the table rejects whatever
\* the other rows do: no key, or the key of an earlier row of the batch.
PoisonedInsert(batch) ==
  {i \in 1..Len(batch) :
     batch[i][1] = None \/ \E j \in 1..(i - 1) : batch[j][1] = batch[i][1]}

\* The same for a fact batch against the rows the table held before the run.
PoisonedFact(batch, table) ==
  {i \in 1..Len(batch) :
     \/ batch[i][2] = None
     \/ \E r \in table : r.institution_id = batch[i][1] /\ r.year = batch[i][2]
     \/ \E j \in 1..(i - 1) : batch[j][1] = batch[i][1]}

SnapshotName(id) ==
  rows[CHOOSE i \in 1..Len(rows) :
         rows[i][1] = id /\ \A k \in (i + 1)..Len(rows) : rows[k][1] # id][2]

\* The run is of a snapshot all of whose keys Institutions already held.
AllKeysKnown ==
  /\ pc = "done"
  /\ script = "load-ipeds"
  /\ Loaded
  /\ ~fault
  /\ rows # <<>>
  /\ \A i \in 1..Len(rows) : rows[i][1] \in KnownBefore

\* C6 as claimed: re-running a directory snapshot against a store that holds
\* all of its keys, with the names the snapshot carries, inserts nothing,
\* updates every row and leaves every Institutions row as it was.
C6_Original ==
  (/\ AllKeysKnown
   /\ \A r \in pre.store.Institutions :
        (\E i \in 1..Len(rows) : rows[i][1] = r.institution_id) =>
          r.name = SnapshotName(r.institution_id))
  => /\ Len(insert_rows) = 0
     /\ Len(update_rows) = Len(rows)
     /\ store.Institutions = pre.store.Institutions

\* The ids of the file's records are all present and pairwise different.
DistinctKeys ==
  /\ Loaded
  /\ \A i \in 1..Len(data) : int(data[i].UNITID).n >= 0
  /\ \A i, j \in 1..Len(data) : i # j => int(data[i].UNITID).n # int(data[j].UNITID).n

\* C7: a load-ipeds run of a snapshot of n rows with n distinct keys against
\* an empty Institutions table, with no error from the store, ends with exit
\* code 0, exactly n Institutions rows, n rows to insert and inserted, and no
\* row to update or updated.
C7_FirstLoadInsertsAll ==
  (/\ pc = "done"
   /\ script = "load-ipeds"
   /\ pre.store.Institutions = {}
   /\ DistinctKeys
   /\ ~fault)
  => /\ exit_code = 0
     /\ Cardinality(store.Institutions) = Len(data)
     /\ institution_ids(store.Institutions) = {Num(int(data[i].UNITID).n) : i \in 1..Len(data)}
     /\ Len(insert_rows) = Len(data)
     /\ inserted.Institutions = Len(data)
     /\ Len(update_rows) = 0
     /\ updated = 0

C7_Witness ==
  /\ pc = "done"
  /\ script = "load-ipeds"
  /\ pre.store.Institutions = {}
  /\ DistinctKeys
  /\ ~fault
  /\ Len(data) = 2
  /\ Cardinality(store.Institutions) = 2

\* C8: a load-ipeds run of a snapshot all of whose keys are already in
\* Institutions, with no error from the store, reports every row as an update
\* and none as an insert, ends with the same set of ids in Institutions, and
\* every entity of the snapshot has the name the snapshot gives it.
C8_RerunUpdatesInPlace ==
  AllKeysKnown =>
    /\ exit_code = 0
    /\ Len(update_rows) = Len(rows)
    /\ updated = Len(rows)
    /\ Len(insert_rows) = 0
    /\ inserted.Institutions = 0
    /\ institution_ids(store.Institutions) = KnownBefore
    /\ Cardinality(store.Institutions) = Cardinality(pre.store.Institutions)
    /\ \A r \in store.Institutions :
         IF \E i \in 1..Len(rows) : rows[i][1] = r.institution_id
         THEN r.name = SnapshotName(r.institution_id)
         ELSE r \in pre.store.Institutions

C8_Witness ==
  /\ AllKeysKnown
  /\ Len(rows) = 2
  /\ rows[1][1] # rows[2][1]
  /\ \E r \in pre.store.Institutions :
       r.institution_id = rows[2][1] /\ r.name # rows[2][2]
  /\ \E r \in pre.store.Institutions :
       r.institution_id = rows[1][1] /\ r.name = rows[1][2]

\* The records of the metrics file whose id Institutions did not hold.
Orphans == {i \in 1..Len(data) : Num(int(data[i].UNITID).n) \notin KnownBefore}

\* The run reports a count of the rows it dropped.
DropCounted ==
  "dropped" \in DOMAIN inserted /\ inserted["dropped"] = Cardinality(Orphans)

\* A metrics run ended whose file was loaded.
MetricsRunEnded == pc = "done" /\ script \in MetricsScripts /\ Loaded

C10_Original ==
  (/\ pc = "done"
   /\ script = "load-scorecard"
   /\ extract_year(csv_path) = None)
  => /\ exit_code = 1
     /\ store = pre.store

\* The positions of the all-digit parts of the name extract_year was called with.
NumericParts == {i \in 1..Len(arg.parts) : isdigit(arg.parts[i])}

\* The last all-digit part of the name.
PeriodToken == arg.parts[CHOOSE i \in NumericParts : \A k \in NumericParts : k <= i]

Spaces(k) == [i \in 1..k |-> " "]

\* core is chars without the spaces at its two ends.
IsTrimOf(core, chars) ==
  /\ core = <<>> \/ (core[1] # " " /\ core[Len(core)] # " ")
  /\ \E i, j \in 0..Len(chars) : chars = Spaces(i) \o core \o Spaces(j)

\* The sentinel tokens of the claim: blank, NA, N/A, NULL, -3, -2, -999.
SentinelTokens ==
  {<<>>, <<"N", "A">>, <<"N", "/", "A">>, <<"N", "U", "L", "L">>, <<"-", "3">>, <<"-", "2">>,
   <<"-", "9", "9", "9">>}

\* The value is a sentinel token, spaces around it or not.
IsSentinel(value) == value.t = "str" /\ \E tok \in SentinelTokens : IsTrimOf(tok, value.s)

\* The value is a number that is not negative or a str that starts with no '-'.
NonNegative(value) ==
  \/ value.t = "num" /\ value.n >= 0
  \/ /\ value.t = "str"
     /\ \A i \in 1..Len(value.s) :
          value.s[i] = "-" => \E k \in 1..(i - 1) : value.s[k] # " "

\* C12 amended: clean returns None for a sentinel token (spaces around it or
\* not) and for None; for any other str it returns the str without the spaces
\* at its ends, not the str itself, and the cleaners of load-scorecard.py and
\* load-scorecard_copy.py also return None for the str "nan" and for a NaN,
\* which the cleaner of load-ipeds.py returns as it is; a number that is not
\* negative is returned unchanged.
C12_CleanStripsOrAbsent ==
  pc = "returned_clean" =>
    /\ IsSentinel(arg) => ret = None
    /\ arg = None => ret = None
    /\ arg = NaN => ret = (IF script = "load-ipeds" THEN NaN ELSE None)
    /\ (arg.t = "str" /\ ~IsSentinel(arg)) =>
         IF script # "load-ipeds" /\ IsTrimOf(<<"n", "a", "n">>, arg.s)
         THEN ret = None
         ELSE ret.t = "str" /\ IsTrimOf(ret.s, arg.s)
    /\ (arg.t = "num" /\ arg.n >= 0) => ret = arg

\* C12 as claimed: None for a sentinel token, the value itself for every value
\* that is no sentinel token and not negative.
C12_Original ==
  pc = "returned_clean" =>
    /\ IsSentinel(arg) => ret = None
    /\ (~IsSentinel(arg) /\ NonNegative(arg)) => ret = arg

C12_Witness ==
  /\ pc = "returned_clean"
  /\ script = "load-ipeds"
  /\ arg = Str(<<" ", "a", " ">>)
  /\ ret = Str(<<"a">>)


\* C13 as claimed: every cleaner turns a number below 0 into None, so no
\* negative number is passed to a write: once a metrics loader has built its
\* rows, the row of every record whose ADM_RATE is a negative number carries
\* None for it.
C13_Original ==
  (pc \in {"sc_accred", "copy_students"}) =>
    \A i \in 1..Len(data) :
      (data[i].ADM_RATE.t = "num" /\ data[i].ADM_RATE.n < 0) => students_rows[i][3] = None


\* The record's key is missing: an empty cell, or a value clean turns into None.
MissingKey(rec) ==
  ~int(rec.UNITID).ok \/ clean_ipeds(Num(int(rec.UNITID).n)) = None

\* C14 as claimed: a load-ipeds run over a file with a record whose key is
\* missing does not abort (exit code 0 when the store raises no error of its
\* own), no row without a key is in insert_rows or update_rows, and the
\* other records are in Institutions after the run.
C14_Original ==
  (/\ pc = "done"
   /\ script = "load-ipeds"
   /\ argv # <<>>
   /\ ~fault
   /\ \E i \in 1..Len(data) : MissingKey(data[i])
   /\ \A i, j \in 1..Len(data) : i # j => data[i].UNITID # data[j].UNITID)
  => /\ exit_code = 0
     /\ \A i \in 1..Len(insert_rows) : insert_rows[i][1] # None
     /\ \A i \in 1..Len(update_rows) : update_rows[i][3] # None
     /\ \A i \in 1..Len(data) :
          ~MissingKey(data[i]) =>
            Num(int(data[i].UNITID).n) \in institution_ids(store.Institutions)


\* The last tuple of a batch that carries the id at position keyAt.
LastWith(batch, keyAt, id) ==
  batch[CHOOSE i \in 1..Len(batch) :
          batch[i][keyAt] = id /\ \A k \in (i + 1)..Len(batch) : batch[k][keyAt] # id]

\* Every row of an insert batch of a fact table is committed / none is.
InsertedAll(batch, t) == \A i \in 1..Len(batch) : FactRow(batch[i]) \in store[t]
InsertedNone(batch, t) ==
  \A i \in 1..Len(batch) : FactRow(batch[i]) \notin store[t] \ pre.store[t]

\* The rows of a fact batch that are to be written: those with a known id.
ToWrite(batch) ==
  SelectSeq(batch, LAMBDA row : row[1] \in institution_ids(store.Institutions))

\* Every tuple of an accredagency batch (agency, id) is committed.
AccredAll(batch) ==
  \A r \in store.Institutions :
    (\E i \in 1..Len(batch) : batch[i][2] = r.institution_id) =>
      r.accredagency = LastWith(batch, 2, r.institution_id)[1]

\* The accredagency batch of load_accred.py: the rows it does not skip.
AccredBatch ==
  [i \in 1..Len(accred_not_skipped(data)) |->
     <<accred_not_skipped(data)[i].ACCREDAGENCY,
       IF int(accred_not_skipped(data)[i].UNITID).ok
       THEN Num(int(accred_not_skipped(data)[i].UNITID).n)
       ELSE accred_not_skipped(data)[i].UNITID>>]

\* Every tuple of the update batch of load-ipeds.py (name, agency, id) is committed.
UpdatedAll ==
  \A r \in store.Institutions :
    (\E i \in 1..Len(update_rows) : update_rows[i][3] = r.institution_id) =>
      /\ r.name = LastWith(update_rows, 3, r.institution_id)[1]
      /\ r.accredagency = LastWith(update_rows, 3, r.institution_id)[2]

\* C15: when a run has ended, with whatever exit code, each batch it was to
\* write is committed with all its rows or with none: the update batch and the
\* insert batch of load-ipeds, the accredagency batch and the three fact
\* batches of load-scorecard, the three fact batches of load-scorecard_copy
\* and the updates of load_accred.
C15_BatchesAllOrNothing ==
  pc = "done" =>
    /\ script = "load-ipeds" =>
         /\ UpdatedAll \/ pre.store.Institutions \subseteq store.Institutions
         /\ \/ \A i \in 1..Len(insert_rows) :
                 InstitutionsRow(insert_rows[i]) \in store.Institutions
            \/ institution_ids(store.Institutions) = KnownBefore
    /\ script \in MetricsScripts =>
         /\ InsertedAll(ToWrite(students_rows), "Students")
              \/ InsertedNone(students_rows, "Students")
         /\ InsertedAll(ToWrite(financials_rows), "Financials")
              \/ InsertedNone(financials_rows, "Financials")
         /\ InsertedAll(ToWrite(academics_rows), "Academics")
              \/ InsertedNone(academics_rows, "Academics")
    /\ script = "load-scorecard" =>
         AccredAll(accred_rows) \/ store.Institutions = pre.store.Institutions
    /\ script = "load_accred" =>
         AccredAll(AccredBatch) \/ store.Institutions = pre.store.Institutions

C15_Witness ==
  /\ pc = "done"
  /\ script = "load-scorecard"
  /\ exit_code = 1
  /\ ~fault
  /\ Len(students_rows) = 2
  /\ students_rows[1][1] = students_rows[2][1]
  /\ students_rows[1][2] # None
  /\ FactRow(students_rows[1]) \notin store.Students


\* An execute of load_accred.py raised: a row it does not skip has a UNITID
\* that is no integer.
AccredRaised ==
  script = "load_accred" /\ \E i \in 1..Len(data) :
    data[i].UNITID.t = "str" /\ strip(data[i].UNITID.s) # <<>> /\ ~int(data[i].UNITID).ok

\* The run met a fatal error: a write failed (an error of the store, a failure
\* record in the log, a raising execute) or its file name carries no period.
FatalError ==
  \/ fault
  \/ error_log # pre.error_log
  \/ AccredRaised
  \/ script \in MetricsScripts /\ extract_year(csv_path) = None

\* C16 as claimed: a run that met a fatal error ends with exit code 1, and a
\* run ends with exit code 0 only when it met none and its writes are committed.
C16_Original ==
  (pc = "done" /\ argv # <<>>) =>
    /\ FatalError => exit_code = 1
    /\ exit_code = 0 =>
         /\ ~FatalError
         /\ script = "load_accred" => AccredAll(AccredBatch)


\* C17 as claimed: every loader started without the path argument ends with
\* exit code 2, having read no file and written nothing.
C17_Original ==
  (pc = "done" /\ argv = <<>>) =>
    /\ exit_code = 2
    /\ data = <<>>
    /\ store = pre.store


\* C18: no step of any loader removes an id from Institutions, neither from
\* the committed table nor from the table as the open transaction sees it
\* while the run goes on.
C18_InstitutionsNeverDeleted ==
  [][/\ institution_ids(store.Institutions) \subseteq institution_ids(store'.Institutions)
     /\ pc' \notin {"idle", "done"} =>
          institution_ids(store.Institutions) \subseteq institution_ids(conn'.Institutions)]_vars

C18_Witness ==
  /\ pc = "done"
  /\ script = "load-ipeds"
  /\ Len(rows) = 2
  /\ Len(update_rows) = 1
  /\ exit_code = 0
  /\ Cardinality(pre.store.Institutions) = 1
  /\ Cardinality(store.Institutions) = 2


\* C19: no step of any loader removes or changes a committed row of Students,
\* Financials or Academics, and no table comes to hold two rows for one
\* (institution_id, year).
C19_FactRowsImmutable ==
  [][\A t \in FactTables :
       /\ store[t] \subseteq store'[t]
       /\ \A r, q \in store'[t] :
            (r.institution_id = q.institution_id /\ r.year = q.year) => r = q]_vars

\* A metrics file was run again for a period the store holds, with another
\* value for an entity: the run failed and the row is as it was.
C19_Witness ==
  /\ pc = "done"
  /\ script \in MetricsScripts
  /\ ~fault
  /\ exit_code = 1
  /\ \E i \in 1..Len(students_rows) : \E r \in store.Students :
       /\ r.institution_id = students_rows[i][1]
       /\ r.year = students_rows[i][2]
       /\ r.metric # students_rows[i][3]
       /\ r \in pre.store.Students


\* C20 amended: a metrics run inserts no Institutions row, removes none and
\* changes no name; load-scorecard_copy leaves Institutions as it was, and
\* load-scorecard changes accredagency only, to a value its accredagency batch
\* carries for that id, committed before the fact writes.
C20_MetricsRunWritesAccredagencyOnly ==
  script \in MetricsScripts =>
    /\ Cardinality(store.Institutions) = Cardinality(pre.store.Institutions)
    /\ \A r \in store.Institutions : \E q \in pre.store.Institutions :
         /\ q.institution_id = r.institution_id
         /\ q.name = r.name
         /\ \/ q.accredagency = r.accredagency
            \/ /\ script = "load-scorecard"
               /\ \E i \in 1..Len(accred_rows) :
                    accred_rows[i][2] = r.institution_id /\ accred_rows[i][1] = r.accredagency
    /\ script = "load-scorecard_copy" =>
         store.Institutions = pre.store.Institutions /\ conn.Institutions = store.Institutions
    /\ (script = "load-scorecard" /\ pc \in {"sc_students", "sc_financials", "sc_academics"}) =>
         AccredAll(accred_rows) /\ conn.Institutions = store.Institutions

\* C20 as claimed: after a metrics run every Institutions row is as before the run.
C20_Original ==
  (pc = "done" /\ script \in MetricsScripts) => store.Institutions = pre.store.Institutions

C20_Witness ==
  /\ pc = "done"
  /\ script = "load-scorecard"
  /\ exit_code = 0
  /\ store.Students # pre.store.Students
  /\ \E r \in store.Institutions :
       r.accredagency = Str(<<"A">>) /\ r \notin pre.store.Institutions


\* The runs that are no directory-snapshot runs.
NonDirectoryScripts == {"load-scorecard", "load-scorecard_copy", "load_accred"}

\* C21: in every state of a metrics run or an accreditation run, the ids in
\* Institutions, committed and as the open transaction sees them, are the
\* ids Institutions held when the run started.
C21_OnlyDirectoryRunsCreateEntities ==
  script \in NonDirectoryScripts =>
    /\ institution_ids(store.Institutions) = KnownBefore
    /\ institution_ids(conn.Institutions) = KnownBefore
    /\ Cardinality(store.Institutions) = Cardinality(pre.store.Institutions)

\* A load-scorecard run ended well whose file named an id the store holds and
\* an id it does not hold.
C21_Witness ==
  /\ pc = "done"
  /\ script = "load-scorecard"
  /\ Loaded
  /\ exit_code = 0
  /\ Len(data) = 2
  /\ data[1].UNITID \in KnownBefore
  /\ data[2].UNITID.t = "num"
  /\ data[2].UNITID \notin KnownBefore
  /\ Len(accred_rows) = 2


\* The fact batch of a table.
BatchOf(t) ==
  CASE t = "Students" -> students_rows
    [] t = "Financials" -> financials_rows
    [] OTHER -> academics_rows

\* The rows of the run's fact batches that were to be written and are not in
\* the store after the run.
NotCommitted ==
  {ti \in FactTables \X (1..Len(data)) :
     /\ ti[2] <= Len(ToWrite(BatchOf(ti[1])))
     /\ FactRow(ToWrite(BatchOf(ti[1]))[ti[2]]) \notin store[ti[1]]}

\* C22 as claimed: after a run the log is the log as it was before the run
\* followed by exactly one record for each row the run could not commit
\* (counted for the metrics loaders, in runs where the store raised no error of
\* its own).
C22_Original ==
  pc = "done" =>
    /\ Len(error_log) >= Len(pre.error_log)
    /\ SubSeq(error_log, 1, Len(pre.error_log)) = pre.error_log
    /\ (script \in MetricsScripts /\ Loaded /\ ~fault) =>
         Len(error_log) - Len(pre.error_log) = Cardinality(NotCommitted)


\* The value is one that stands for "not reported": a sentinel token, one of
\* the codes -3, -2, -999 as a number, or a NaN.
NotReported(value) ==
  \/ IsSentinel(value)
  \/ value.t = "num" /\ value.n \in {0 - 3, 0 - 2, 0 - 999}
  \/ value = NaN

\* C23 as claimed: no column of any table, committed or written in the open
\* transaction, holds a sentinel token, a sentinel code or a NaN.
C23_Original ==
  \A tables \in {store, conn} :
    /\ \A r \in tables.Institutions :
         ~NotReported(r.institution_id) /\ ~NotReported(r.name) /\ ~NotReported(r.accredagency)
    /\ \A t \in FactTables : \A r \in tables[t] :
         ~NotReported(r.institution_id) /\ ~NotReported(r.year) /\ ~NotReported(r.metric)


\* C24 (as stated): every loader learns the known identifiers with one
\* query per batch, never one query per row: a directory run executes at
\* most one key query, a metrics run at most one per fact table.
C24_Original ==
  (pc = "done" /\ Loaded) =>
    key_queries <= (IF script = "load-ipeds" THEN 1 ELSE Cardinality(FactTables))


\* The mapped rows of load-ipeds whose key was known when the run read the
\* keys, and those whose key was not, each in file order.
KnownRows == SelectSeq(rows, LAMBDA row : row[1] \in KnownBefore)
UnknownRows == SelectSeq(rows, LAMBDA row : row[1] \notin KnownBefore)

\* C25: in load-ipeds the k-th tuple of update_rows is the k-th mapped row
\* with a known key, reshaped to (name, accredagency, key): the non-key values
\* in column order, then the key last; the k-th tuple of insert_rows is the
\* k-th mapped row with an unknown key as it was mapped, key first.
C25_UpdateKeyLastInsertKeyFirst ==
  script = "load-ipeds" =>
    /\ Len(update_rows) = Len(KnownRows)
    /\ \A k \in 1..Len(update_rows) :
         update_rows[k] = <<KnownRows[k][2], KnownRows[k][3], KnownRows[k][1]>>
    /\ insert_rows = UnknownRows
    /\ \A k \in 1..Len(insert_rows) :
         /\ Len(insert_rows[k]) = 3
         /\ insert_rows[k][1] \notin KnownBefore

C25_Witness ==
  /\ script = "load-ipeds"
  /\ pc = "ipeds_insert"
  /\ Len(rows) = 2
  /\ rows[1][1] \notin KnownBefore
  /\ rows[2][1] \in KnownBefore
  /\ update_rows = <<<<rows[2][2], None, rows[2][1]>>>>
  /\ insert_rows = <<rows[1]>>
  /\ rows[2][2] # rows[2][1]


\* A load-ipeds run has ended with exit code 0.
DirectoryRunSucceeded == pc = "done" /\ script = "load-ipeds" /\ Loaded /\ exit_code = 0

\* The entities the update batch of load-ipeds names.
UpdatedIds == {update_rows[i][3] : i \in 1..Len(update_rows)}

\* A committed accredagency goes from None to a value in this step.
AccredagencyRestored ==
  \E r \in store.Institutions : \E q \in store'.Institutions :
    /\ q.institution_id = r.institution_id
    /\ r.accredagency = None
    /\ q.accredagency # None

\* C26: after a load-ipeds run that ended with exit code 0, every entity its
\* update batch names has accredagency None in the committed table, whatever
\* it held before the run; and a committed accredagency goes from None to a
\* value only in a step of load-scorecard or of load_accred.
C26_DirectoryRunClearsAccredagency ==
  /\ [](DirectoryRunSucceeded =>
          \A r \in store.Institutions :
            r.institution_id \in UpdatedIds => r.accredagency = None)
  /\ [][AccredagencyRestored => script \in {"load-scorecard", "load_accred"}]_vars

C26_Witness ==
  /\ DirectoryRunSucceeded
  /\ \E r \in pre.store.Institutions :
       /\ r.accredagency = Str(<<"A">>)
       /\ r.institution_id \in UpdatedIds
       /\ \E q \in store.Institutions :
            q.institution_id = r.institution_id /\ q.accredagency = None


\* The positions of a batch whose tuple has the given key at keyAt.
PositionsOf(batch, keyAt, id) == {i \in 1..Len(batch) : batch[i][keyAt] = id}

\* C27: load-ipeds reads the known keys with one query before it partitions
\* and partitions against that set alone: every mapped row whose key was not
\* in Institutions then is in insert_rows, as many times as the file has the
\* key, and no tuple of update_rows has that key; so two rows with the same
\* unknown key are both in insert_rows.
C27_DuplicateUnknownKeysBothInserted ==
  (script = "load-ipeds" /\ Loaded /\ pc # "idle") =>
    /\ key_queries = 1
    /\ \A i \in 1..Len(rows) :
         rows[i][1] \notin KnownBefore =>
           /\ Cardinality(PositionsOf(insert_rows, 1, rows[i][1]))
                = Cardinality(PositionsOf(rows, 1, rows[i][1]))
           /\ PositionsOf(update_rows, 3, rows[i][1]) = {}
           /\ InSeq(rows[i], insert_rows)

C27_Witness ==
  /\ script = "load-ipeds"
  /\ pc = "done"
  /\ Len(rows) = 2
  /\ rows[1][1] = rows[2][1]
  /\ rows[1][1] # None
  /\ rows[1][1] \notin KnownBefore
  /\ insert_rows = rows
  /\ update_rows = <<>>
  /\ exit_code = 1
  /\ ~fault


\* The (institution_id, year) pairs a fact table holds.
KeysOf(table) == {<<r.institution_id, r.year>> : r \in table}

\* C28: the committed Students, Financials and Academics tables hold the same
\* set of (institution_id, year) pairs in every state, the fact tables being
\* empty at the start; and what a metrics run has added to them when it has
\* ended is the same set of pairs for the three tables, empty or not.
C28_FactTablesShareKeys ==
  /\ KeysOf(store.Students) = KeysOf(store.Financials)
  /\ KeysOf(store.Financials) = KeysOf(store.Academics)
  /\ MetricsRunEnded =>
       /\ KeysOf(store.Students \ pre.store.Students)
            = KeysOf(store.Financials \ pre.store.Financials)
       /\ KeysOf(store.Financials \ pre.store.Financials)
            = KeysOf(store.Academics \ pre.store.Academics)

C28_Witness ==
  /\ pc = "done"
  /\ script = "load-scorecard"
  /\ exit_code = 0
  /\ pre.store.Students # {}
  /\ store.Students # pre.store.Students
  /\ Cardinality(KeysOf(store.Academics)) = 2


\* A fact insert of load-scorecard raised in the run that just ended: the
\* failure log got a record that is not the accredagency batch's.
FactInsertFailed ==
  /\ pc = "done"
  /\ script = "load-scorecard"
  /\ Loaded
  /\ Len(error_log) = Len(pre.error_log) + 1
  /\ Last(error_log).i # accredagency_batch

\* C29: when a fact insert of load-scorecard fails, the run exits with code
\* 1, the three fact tables are as they were before the run and the open
\* transaction holds nothing more, and Institutions is the table of before the
\* run with the whole accredagency batch of the run applied and committed.
C29_AccredagencyCommittedBeforeFacts ==
  FactInsertFailed =>
    /\ exit_code = 1
    /\ \A t \in FactTables : store[t] = pre.store[t]
    /\ store.Institutions
         = executemany_update_accredagency(pre.store.Institutions, accred_rows)
    /\ AccredAll(accred_rows)
    /\ conn = store

C29_Witness ==
  /\ FactInsertFailed
  /\ exit_code = 1
  /\ store.Institutions # pre.store.Institutions
  /\ \E r \in store.Institutions :
       r.accredagency = Str(<<"A">>) /\ InSeq(<<Str(<<"A">>), r.institution_id>>, accred_rows)


\* The bulk insert of load-ipeds raised after its bulk update had succeeded.
InsertFailedAfterUpdate ==
  /\ pc = "done"
  /\ script = "load-ipeds"
  /\ Loaded
  /\ exit_code = 1
  /\ updated > 0

\* C30: load-ipeds commits nothing before both of its batches have succeeded:
\* while the run is between its update and its insert the committed store is
\* the store of before the run, and when the insert fails after a successful
\* update the run ends with exit code 1, the committed store, Institutions
\* included, exactly as before the run, and nothing left in the transaction;
\* a run that ends with exit code 0 has committed the update batch.
C30_UpdateAndInsertShareTransaction ==
  /\ (script = "load-ipeds" /\ pc \in {"ipeds_update", "ipeds_insert"}) => store = pre.store
  /\ InsertFailedAfterUpdate =>
       /\ store.Institutions = pre.store.Institutions
       /\ store = pre.store
       /\ conn = store
  /\ DirectoryRunSucceeded => UpdatedAll

C30_Witness ==
  /\ InsertFailedAfterUpdate
  /\ ~fault
  /\ insert_rows # <<>>
  /\ executemany_update_institutions(pre.store.Institutions, update_rows)
       # pre.store.Institutions
  /\ store.Institutions = pre.store.Institutions

====
